---- MODULE Spec2Model ----
(***************************************************************************)
(* CareLens (src/app.py): a Streamlit page script.  Every interaction of   *)
(* a browser session re-executes the script top to bottom (a "page run").  *)
(* Streamlit runs each session's script in its own thread, so page runs of *)
(* different sessions interleave at their blocking SDK calls.  Shared      *)
(* state: the Firestore collection 'predictions', the S3 bucket            *)
(* 'carelens', the st.cache_resource entry of load_model, the wall clock.  *)
(***************************************************************************)
EXTENDS Integers, Sequences, FiniteSets, TLC

(* ------------------------------ bounds --------------------------------- *)
NumSessions == 1
MaxRuns == 2
MaxClock == 2
InitDocs == 5

(* ------------------------- program constants --------------------------- *)
\* model.fc = torch.nn.Linear(num_features, 2)
NumClasses == 2
\* .limit(5)
LIMIT == 5
\* the clock is counted in half seconds; strftime("%Y-%m-%d %H:%M:%S")
\* keeps whole seconds only
TicksPerSecond == 2

BUCKET_NAME == "carelens"

Sessions == 1..NumSessions

\* document ids handed out by collection.document(): random, modelled as
\* any id not yet in the collection.  InitIds are the ids of records that
\* were already stored when the process started.
InitIds == 2..(InitDocs + 1)
DocIds == 1..(InitDocs + MaxRuns)

\* uploaded_file is None
NoFile == [name |-> "", image |-> 0, corrupt |-> FALSE]

\* Files a user can put into st.file_uploader: two different X-rays that
\* share a file name, and a file PIL cannot decode.
Files ==
  { [name |-> "a.png", image |-> 1, corrupt |-> FALSE],
    [name |-> "a.png", image |-> 2, corrupt |-> FALSE],
    [name |-> "b.png", image |-> 3, corrupt |-> TRUE] }

VARIABLES
  predictions,   \* Firestore collection: doc id -> record
  bucket,        \* S3 bucket: object key -> stored image
  cache,         \* st.cache_resource entry of load_model
  clock,         \* wall clock, in ticks
  loads,         \* executions of the body of load_model
  runs,          \* page runs started so far
  analyses,      \* Analyze clicks performed so far
  origin,        \* doc id -> the analysis (image, tick) that produced it
  pc,            \* per session: position of the page run
  page,          \* per session: what the browser shows after the last run
  db, s3, model, \* per run: module-level names of the script
  uploaded_file, \* per session: widget state of st.file_uploader
  clicked,       \* per run: st.button returns True
  pred, label, time_now, doc_ref,   \* per run: locals of the Analyze branch
  log,           \* per run: elements rendered and SDK calls made, in order
  shown          \* per run: documents rendered under "Recent Predictions"

globals == <<predictions, bucket, cache, clock, loads, runs, analyses, origin>>
run == <<db, s3, model, clicked, pred, label, time_now, doc_ref, log, shown>>
vars == <<predictions, bucket, cache, clock, loads, runs, analyses, origin, pc,
          page, db, s3, model, uploaded_file, clicked, pred, label, time_now,
          doc_ref, log, shown>>

(* ------------------------------ helpers -------------------------------- *)
Range(q) == {q[i] : i \in 1..Len(q)}

Count(q, e) == Cardinality({i \in 1..Len(q) : q[i] = e})

\* time_now.strftime("%Y-%m-%d %H:%M:%S"): the sub-second part is dropped.
\* The fixed-width string is represented by its count of whole seconds,
\* which orders the same way as the string does.
strftime(t) == t \div TicksPerSecond

\* s3_key = f"user_uploads/{uploaded_file.name}"
s3_key(f) == <<"user_uploads", f.name>>

\* image_url = f"https://{BUCKET_NAME}.s3.amazonaws.com/{s3_key}"
image_url(key) == [host |-> BUCKET_NAME, key |-> key]

\* _, pred = torch.max(model(img_tensor), 1): the argmax of the two logits,
\* fixed by the image and the weights
Argmax(image) == image % NumClasses

\* mutant: the two class names exchanged
LabelOf_Swapped(p) == IF p = 0 THEN "Pneumonia" ELSE "Normal"

\* label = "Normal" if pred.item() == 0 else "Pneumonia"
LabelOf(p) == IF p = 0 THEN "Normal" ELSE "Pneumonia"

\* the dict passed to doc_ref.set
Record(f, l, t, url) ==
  [file_name |-> f.name, label |-> l, timestamp |-> strftime(t),
   image_url |-> url]

\* mutant: direction=ASCENDING
Before_Ascending(coll, d, e) ==
  \/ coll[d].timestamp < coll[e].timestamp
  \/ coll[d].timestamp = coll[e].timestamp /\ d < e

\* Firestore's order of order_by("timestamp", DESCENDING): by timestamp,
\* ties by document id, both descending
Before(coll, d, e) ==
  \/ coll[d].timestamp > coll[e].timestamp
  \/ coll[d].timestamp = coll[e].timestamp /\ d > e

RECURSIVE OrderBy(_, _)
OrderBy(coll, ids) ==
  IF ids = {} THEN <<>>
  ELSE LET first == CHOOSE d \in ids : \A e \in ids \ {d} : Before(coll, d, e)
       IN <<first>> \o OrderBy(coll, ids \ {first})

Limit(q, n) == SubSeq(q, 1, IF Len(q) < n THEN Len(q) ELSE n)

\* db.collection("predictions").order_by("timestamp", DESCENDING).limit(5)
QueryRecent(coll) == Limit(OrderBy(coll, DOMAIN coll), LIMIT)

Extend(f, k, v) == [x \in DOMAIN f \cup {k} |-> IF x = k THEN v ELSE f[x]]

(* ------------------------------- Init ---------------------------------- *)
\* Firestore and S3 outlive the process: the collection is empty or holds
\* InitDocs records written within the current second by earlier runs of
\* the application, all for one X-ray named "a.png" that is stored in S3.
OldFile == [name |-> "a.png", image |-> 0, corrupt |-> FALSE]

OldRecord == Record(OldFile, LabelOf(Argmax(0)), 0, image_url(s3_key(OldFile)))

Init ==
  /\ \/ /\ predictions = [d \in InitIds |-> OldRecord]
        /\ origin = [d \in InitIds |-> [image |-> 0, tick |-> 0]]
        /\ bucket = [k \in {s3_key(OldFile)} |-> 0]
     \/ /\ predictions = [d \in {} |-> OldRecord]
        /\ origin = [d \in {} |-> [image |-> 0, tick |-> 0]]
        /\ bucket = [k \in {} |-> 0]
  /\ cache = [state |-> "miss", value |-> "None", msg |-> ""]
  /\ clock = 0
  /\ loads = 0
  /\ runs = 0
  /\ analyses = 0
  /\ pc = [s \in Sessions |-> "idle"]
  /\ page = [s \in Sessions |-> "blank"]
  /\ db = [s \in Sessions |-> FALSE]
  /\ s3 = [s \in Sessions |-> FALSE]
  /\ model = [s \in Sessions |-> "None"]
  /\ uploaded_file = [s \in Sessions |-> NoFile]
  /\ clicked = [s \in Sessions |-> FALSE]
  /\ pred = [s \in Sessions |-> -1]
  /\ label = [s \in Sessions |-> ""]
  /\ time_now = [s \in Sessions |-> -1]
  /\ doc_ref = [s \in Sessions |-> 0]
  /\ log = [s \in Sessions |-> <<>>]
  /\ shown = [s \in Sessions |-> <<>>]

(* ------------------------------ actions -------------------------------- *)
Emit(s, events) == log' = [log EXCEPT ![s] = @ \o events]

Goto(s, p) == pc' = [pc EXCEPT ![s] = p]

\* Firebase Setup: try: db = firestore.client() / except Exception: db = None
FirebaseSetup ==
  { [db |-> TRUE, msg |-> "Firebase Connected"],
    [db |-> FALSE, msg |-> "Firebase connection failed."] }

\* AWS S3 Setup: try: s3 = boto3.client(...) / except Exception: s3 = None
S3Setup ==
  { [s3 |-> TRUE, msg |-> "Connected to S3 bucket"],
    [s3 |-> FALSE, msg |-> "S3 connection failed."] }

\* A script run starts with widget state f and button state c, and executes
\* the two setup blocks (they touch nothing shared).
BeginRun(s, f, c) ==
  /\ pc[s] = "idle"
  /\ runs < MaxRuns
  /\ runs' = runs + 1
  /\ uploaded_file' = [uploaded_file EXCEPT ![s] = f]
  /\ clicked' = [clicked EXCEPT ![s] = c]
  /\ \E fb \in FirebaseSetup, aws \in S3Setup :
       /\ db' = [db EXCEPT ![s] = fb.db]
       /\ s3' = [s3 EXCEPT ![s] = aws.s3]
       /\ log' = [log EXCEPT ![s] = <<fb.msg, aws.msg>>]
  /\ Goto(s, "load")
  /\ UNCHANGED <<page, model, pred, label, time_now, doc_ref, shown>>

\* first page load or a rerun not caused by a widget
Rerun(s) ==
  /\ BeginRun(s, uploaded_file[s], FALSE)
  /\ UNCHANGED <<predictions, bucket, cache, clock, loads, analyses, origin>>

\* the user picks, replaces or removes the file in st.file_uploader
UploadFile(s) ==
  /\ \E f \in Files \cup {NoFile} :
       /\ f # uploaded_file[s]
       /\ BeginRun(s, f, FALSE)
  /\ UNCHANGED <<predictions, bucket, cache, clock, loads, analyses, origin>>

\* the user clicks "Analyze Image": possible only on a page that shows the
\* button
ClickAnalyze(s) ==
  /\ page[s] = "button"
  /\ BeginRun(s, uploaded_file[s], TRUE)
  /\ analyses' = analyses + 1
  /\ UNCHANGED <<predictions, bucket, cache, clock, loads, origin>>

\* The script run is over: its namespace is dropped, the browser keeps the
\* page.
EndRun(s, p) ==
  /\ Goto(s, "idle")
  /\ page' = [page EXCEPT ![s] = p]
  /\ db' = [db EXCEPT ![s] = FALSE]
  /\ s3' = [s3 EXCEPT ![s] = FALSE]
  /\ model' = [model EXCEPT ![s] = "None"]
  /\ clicked' = [clicked EXCEPT ![s] = FALSE]
  /\ pred' = [pred EXCEPT ![s] = -1]
  /\ label' = [label EXCEPT ![s] = ""]
  /\ time_now' = [time_now EXCEPT ![s] = -1]
  /\ doc_ref' = [doc_ref EXCEPT ![s] = 0]
  /\ log' = [log EXCEPT ![s] = <<>>]
  /\ shown' = [shown EXCEPT ![s] = <<>>]

\* The body of load_model, run with the caller's s3: the value returned and
\* the st.error it renders.
load_model_body(s) ==
  IF s3[s]
  THEN { [value |-> "resnet18", msg |-> ""],
         [value |-> "None", msg |-> "Failed to load model"] }
  ELSE { [value |-> "None", msg |-> "S3 not available to load model."] }

\* mutant: a cached None is not reused, the body runs again
MustCompute_NoneNotCached(c) == c.state = "miss" \/ c.value = "None"

\* @st.cache_resource: the body runs on a miss only; whatever it returned,
\* None included, is stored and handed out (its st.error replayed) on
\* every later call.
MustCompute(c) == c.state = "miss"

\* mutant: the Analyze branch is entered on every run
AfterButton_Always(s) == "analyze"

\* if st.button("Analyze Image"): ... (the branch is skipped otherwise)
AfterButton(s) == IF clicked[s] THEN "analyze" ELSE "history"

\* uploaded_file = st.file_uploader(...); Image.open(...).convert("RGB");
\* st.image(preview); st.button(...).  Image.open is in no try block: on a
\* file PIL cannot decode the exception is uncaught, Streamlit shows the
\* traceback and stops the script run.
Uploader(s, m, events) ==
  IF uploaded_file[s] = NoFile
  THEN /\ model' = [model EXCEPT ![s] = m]
       /\ Emit(s, events)
       /\ Goto(s, "history")
       /\ UNCHANGED <<page, db, s3, clicked, pred, label, time_now, doc_ref,
                      shown>>
  ELSE IF uploaded_file[s].corrupt
  THEN EndRun(s, "exception")
  ELSE /\ model' = [model EXCEPT ![s] = m]
       /\ Emit(s, events \o <<"Preview", "button">>)
       /\ Goto(s, AfterButton(s))
       /\ UNCHANGED <<page, db, s3, clicked, pred, label, time_now, doc_ref,
                      shown>>

\* model = load_model(), then the upload widget (which touches nothing
\* shared)
load_model(s) ==
  /\ pc[s] = "load"
  /\ IF MustCompute(cache)
     THEN \E r \in load_model_body(s) :
            /\ cache' = [state |-> "hit", value |-> r.value, msg |-> r.msg]
            /\ loads' = loads + 1
            /\ Uploader(s, r.value, IF r.msg = "" THEN <<>> ELSE <<r.msg>>)
     ELSE /\ Uploader(s, cache.value,
                      IF cache.msg = "" THEN <<>> ELSE <<cache.msg>>)
          /\ UNCHANGED <<cache, loads>>
  /\ UNCHANGED <<predictions, bucket, clock, runs, analyses, origin,
                 uploaded_file>>

\* mutant: if s3:
Persist_S3Only(s) == s3[s]

\* if s3 and db:
Persist(s) == s3[s] /\ db[s]

\* the Analyze branch up to the persistence block: model check, forward
\* pass, label, time_now, result card
Analyze(s) ==
  /\ pc[s] = "analyze"
  /\ IF model[s] = "None"
     THEN /\ Emit(s, <<"Model not loaded.">>)
          /\ Goto(s, "history")
          /\ UNCHANGED <<pred, label, time_now>>
     ELSE /\ pred' = [pred EXCEPT ![s] = Argmax(uploaded_file[s].image)]
          /\ label' = [label EXCEPT ![s] = LabelOf(pred'[s])]
          /\ time_now' = [time_now EXCEPT ![s] = clock]
          /\ Emit(s, <<"call:model", "Result">>)
          /\ Goto(s, IF Persist(s) THEN "s3upload" ELSE "history")
  /\ UNCHANGED <<globals, page, db, s3, model, uploaded_file, clicked,
                 doc_ref, shown>>

\* mutant: the upload is tried again after a failure
OnUploadError_Retry == "s3upload"

\* mutant: the failure of the upload does not leave the try block
OnUploadError_Continue == "write"

\* except Exception as e: st.error("Upload or database save failed")
\* leaves the try block; the script continues below it
OnUploadError == "history"

\* s3.upload_file(temp_file.name, BUCKET_NAME, s3_key, ...)
S3Upload(s) ==
  /\ pc[s] = "s3upload"
  /\ \/ /\ bucket' = Extend(bucket, s3_key(uploaded_file[s]),
                            uploaded_file[s].image)
        /\ Emit(s, <<"call:s3.upload_file", "Image securely saved to S3.">>)
        /\ Goto(s, "write")
     \/ /\ Emit(s, <<"call:s3.upload_file",
                     "Upload or database save failed">>)
        /\ Goto(s, OnUploadError)
        /\ UNCHANGED bucket
  /\ UNCHANGED <<predictions, cache, clock, loads, runs, analyses, origin,
                 page, db, s3, model, uploaded_file, clicked, pred, label, time_now,
                 doc_ref, shown>>

\* mutant: document(<some id>) instead of an auto-generated id
NewDocIds_Any(coll) == DocIds

\* doc_ref = db.collection("predictions").document(): an auto-generated id,
\* never the id of an existing document
NewDocIds(coll) == DocIds \ DOMAIN coll

\* doc_ref.set({...}) and the st.success after it, or the except branch
FirestoreWrite(s) ==
  /\ pc[s] = "write"
  /\ \E d \in NewDocIds(predictions) :
       /\ doc_ref' = [doc_ref EXCEPT ![s] = d]
       /\ \/ /\ predictions' =
                  Extend(predictions, d,
                         Record(uploaded_file[s], label[s], time_now[s],
                                image_url(s3_key(uploaded_file[s]))))
             /\ origin' = Extend(origin, d,
                                 [image |-> uploaded_file[s].image,
                                  tick |-> time_now[s]])
             /\ Emit(s, <<"call:doc_ref.set",
                          "Prediction record added to Firestore.">>)
          \/ /\ Emit(s, <<"call:doc_ref.set",
                          "Upload or database save failed">>)
             /\ UNCHANGED <<predictions, origin>>
  /\ Goto(s, "history")
  /\ UNCHANGED <<bucket, cache, clock, loads, runs, analyses, page, db, s3,
                 model,
                 uploaded_file, clicked, pred, label, time_now, shown>>

\* Show Recent Predictions: the documents of the query are rendered in the
\* order they arrive; an exception of the query (raised when the stream is
\* opened, before a document arrives) is shown as a warning
History(s) ==
  /\ pc[s] = "history"
  /\ IF db[s]
     THEN \/ /\ shown' = [shown EXCEPT ![s] = QueryRecent(predictions)]
             /\ Emit(s, <<"Recent Predictions", "call:stream">>)
          \/ /\ Emit(s, <<"Recent Predictions", "call:stream",
                          "Could not load prediction history">>)
             /\ UNCHANGED shown
     ELSE /\ Emit(s, <<"Recent Predictions",
                       "Firestore not connected - history unavailable.">>)
          /\ UNCHANGED shown
  /\ Goto(s, "footer")
  /\ UNCHANGED <<globals, page, db, s3, model, uploaded_file, clicked, pred,
                 label, time_now, doc_ref>>

\* Footer: the last statement of the script
Footer(s) ==
  /\ pc[s] = "footer"
  /\ EndRun(s, IF "button" \in Range(log[s]) THEN "button" ELSE "plain")
  /\ UNCHANGED <<globals, uploaded_file>>

\* datetime.now(IST) advances
Tick ==
  /\ clock < MaxClock
  /\ clock' = clock + 1
  /\ UNCHANGED <<predictions, bucket, cache, loads, runs, analyses, origin,
                 pc, page, uploaded_file, run>>

Next ==
  \/ \E s \in Sessions : Rerun(s)
  \/ \E s \in Sessions : UploadFile(s)
  \/ \E s \in Sessions : ClickAnalyze(s)
  \/ \E s \in Sessions : load_model(s)
  \/ \E s \in Sessions : Analyze(s)
  \/ \E s \in Sessions : S3Upload(s)
  \/ \E s \in Sessions : FirestoreWrite(s)
  \/ \E s \in Sessions : History(s)
  \/ \E s \in Sessions : Footer(s)
  \/ Tick

Spec == Init /\ [][Next]_vars

(* ------------------------------ properties ----------------------------- *)
Has(s, e) == \E i \in 1..Len(log[s]) : log[s][i] = e

Fields == {"file_name", "label", "timestamp", "image_url"}

\* records written by this process (the earlier ones are of image 0)
Written == {d \in DOMAIN predictions : origin[d].image # OldFile.image}

\* the Analyze branch of the run of s has been executed
Analyzed(s) == clicked[s] /\ pc[s] \in {"s3upload", "write", "history", "footer"}

UploadFailed(s) ==
  \E i \in 1..(Len(log[s]) - 1) :
    /\ log[s][i] = "call:s3.upload_file"
    /\ log[s][i + 1] = "Upload or database save failed"

WriteFailed(s) ==
  \E i \in 1..(Len(log[s]) - 1) :
    /\ log[s][i] = "call:doc_ref.set"
    /\ log[s][i + 1] = "Upload or database save failed"

\* C1 as stated: once every page run has ended, the number of records the
\* application created equals the number of Analyze clicks performed.
C1_OneRecordPerAnalysis ==
  (\A s \in Sessions : pc[s] = "idle") => Cardinality(Written) = analyses

\* C1 amended: an Analyze click creates at most one record, and creates it
\* exactly when the model is loaded, both clients are available and both
\* the upload and the write succeed; a run that is not an Analyze click
\* makes no write; so the records created never outnumber the clicks.
C1_AtMostOneRecordPerAnalysis ==
  /\ Cardinality(Written) <= analyses
  /\ \A s \in Sessions :
       /\ Count(log[s], "Prediction record added to Firestore.") <= 1
       /\ ~clicked[s] => ~Has(s, "call:doc_ref.set")
       /\ Has(s, "Prediction record added to Firestore.") =>
            doc_ref[s] \in Written
       /\ pc[s] = "footer" /\ clicked[s] =>
            ( Has(s, "Prediction record added to Firestore.") <=>
                /\ model[s] # "None"
                /\ s3[s] /\ db[s]
                /\ ~UploadFailed(s)
                /\ ~WriteFailed(s) )

C1_Witness ==
  \E s \in Sessions :
    /\ pc[s] = "footer" /\ clicked[s]
    /\ Has(s, "Prediction record added to Firestore.")
    /\ analyses = 1 /\ Cardinality(Written) = 1

\* C2: no step changes or removes a record that is in the collection; the
\* collection only grows.
C2_RecordsNeverMutatedOrDeleted ==
  [][predictions' # predictions =>
       \A d \in DOMAIN predictions :
         d \in DOMAIN predictions' /\ predictions'[d] = predictions[d]]_vars

C2_Witness ==
  /\ Written # {}
  /\ DOMAIN predictions \ Written # {}

\* C3: every record has exactly the four fields, its label is "Normal" or
\* "Pneumonia", and the record a run wrote carries "Normal" iff the argmax
\* index of that run was 0.
C3_RecordFieldsAndLabel ==
  /\ \A d \in DOMAIN predictions :
       /\ DOMAIN predictions[d] = Fields
       /\ predictions[d].label \in {"Normal", "Pneumonia"}
  /\ \A s \in Sessions :
       Has(s, "Prediction record added to Firestore.") =>
         /\ pred[s] \in 0..(NumClasses - 1)
         /\ predictions[doc_ref[s]].label = "Normal" <=> pred[s] = 0
         /\ predictions[doc_ref[s]].label = "Pneumonia" <=> pred[s] # 0

C3_Witness ==
  \E s \in Sessions :
    /\ Has(s, "Prediction record added to Firestore.")
    /\ pred[s] = 0
    /\ predictions[doc_ref[s]].label = "Normal"

\* C4 as stated: no page run is ended by an uncaught exception; every run
\* goes on to the history section and the footer.
C4_EveryFailureCaught ==
  \A s \in Sessions : page[s] # "exception"

\* C5: within one run the S3 upload is called at most once and the
\* Firestore write at most once; after the error message of a failed
\* attempt no further upload or write is called.
C5_NoRetry ==
  \A s \in Sessions :
    /\ Count(log[s], "call:s3.upload_file") <= 1
    /\ Count(log[s], "call:doc_ref.set") <= 1
    /\ \A i \in 1..Len(log[s]) :
         log[s][i] = "Upload or database save failed" =>
           \A j \in (i + 1)..Len(log[s]) :
             log[s][j] \notin {"call:s3.upload_file", "call:doc_ref.set"}

C5_Witness ==
  \E s \in Sessions :
    /\ pc[s] = "footer"
    /\ UploadFailed(s)
    /\ Count(log[s], "call:s3.upload_file") = 1
    /\ ~Has(s, "call:doc_ref.set")

Key(d) == predictions[d].image_url.key

\* C6: the record is written only after the upload of the same run has
\* succeeded; a failed upload is followed by no write; every record's
\* image_url names an object that is in the bucket.
C6_WriteOnlyAfterUpload ==
  /\ \A d \in DOMAIN predictions : Key(d) \in DOMAIN bucket
  /\ \A s \in Sessions :
       /\ Has(s, "call:doc_ref.set") => Has(s, "Image securely saved to S3.")
       /\ UploadFailed(s) => ~Has(s, "call:doc_ref.set")
       /\ UploadFailed(s) => ~Has(s, "Prediction record added to Firestore.")

C6_Witness ==
  \E s \in Sessions :
    /\ pc[s] = "footer"
    /\ UploadFailed(s)
    /\ Written = {}

\* C7: an Analyze click with no model shows "Model not loaded" and makes no
\* inference, upload or write; with a model but without S3 or Firestore it
\* shows the label and makes neither the upload nor the write; an upload or
\* a write is made only with model, S3 client and Firestore client.
C7_PersistenceGated ==
  \A s \in Sessions :
    /\ Analyzed(s) /\ model[s] = "None" =>
         /\ Has(s, "Model not loaded.")
         /\ ~Has(s, "call:model")
         /\ ~Has(s, "call:s3.upload_file")
         /\ ~Has(s, "call:doc_ref.set")
    /\ Analyzed(s) /\ model[s] # "None" /\ ~(s3[s] /\ db[s]) =>
         /\ Has(s, "Result") /\ label[s] \in {"Normal", "Pneumonia"}
         /\ ~Has(s, "call:s3.upload_file")
         /\ ~Has(s, "call:doc_ref.set")
    /\ Has(s, "call:s3.upload_file") \/ Has(s, "call:doc_ref.set") =>
         clicked[s] /\ model[s] # "None" /\ s3[s] /\ db[s]

C7_Witness ==
  \E s \in Sessions :
    /\ pc[s] = "footer" /\ clicked[s]
    /\ model[s] # "None" /\ s3[s] /\ ~db[s]
    /\ Has(s, "Result")
    /\ ~Has(s, "call:s3.upload_file")

Min(a, b) == IF a < b THEN a ELSE b

\* the History step of session s
HistoryStep(s) == pc[s] = "history" /\ pc'[s] = "footer"

QueryOk(s) == Has(s, "call:stream")' /\ ~Has(s, "Could not load prediction history")'

NoQuery(s) ==
  /\ ~Has(s, "call:stream")'
  /\ Has(s, "Firestore not connected - history unavailable.")'
  /\ shown'[s] = <<>>

\* C8 as stated: with Firestore available the section lists at most 5
\* records; a query that succeeds lists the min(5, size) most recent
\* records in descending order of the time of their analysis, the record
\* written by this run among them; without Firestore no query is made and
\* the message is shown.
C8_RecentInChronologicalOrder ==
  [][\A s \in Sessions : HistoryStep(s) =>
       IF db[s]
       THEN LET l == shown'[s] IN
            /\ Len(l) <= LIMIT
            /\ QueryOk(s) =>
                 /\ Len(l) = Min(LIMIT, Cardinality(DOMAIN predictions))
                 /\ \A i, j \in 1..Len(l) :
                      i < j => origin[l[i]].tick >= origin[l[j]].tick
                 /\ \A d \in DOMAIN predictions \ Range(l) :
                      \A e \in Range(l) : origin[d].tick <= origin[e].tick
                 /\ Has(s, "Prediction record added to Firestore.") =>
                      doc_ref[s] \in Range(l)
       ELSE NoQuery(s)]_vars

\* C8 amended: with Firestore available the section lists at most 5
\* records in non-increasing order of their stored timestamp (whole
\* seconds); when the query succeeds they are min(5, size) records and no
\* unlisted record has a later timestamp than a listed one, and the record
\* written by this run is among them if fewer than 5 other records carry
\* an equal or later timestamp.  Without Firestore no query is made and
\* the message is shown.
C8_RecentByStoredTimestamp ==
  [][\A s \in Sessions : HistoryStep(s) =>
       IF db[s]
       THEN LET l == shown'[s] IN
            /\ Len(l) <= LIMIT
            /\ Range(l) \subseteq DOMAIN predictions
            /\ \A i, j \in 1..Len(l) :
                 i < j => /\ l[i] # l[j]
                          /\ predictions[l[i]].timestamp >=
                               predictions[l[j]].timestamp
            /\ QueryOk(s) =>
                 /\ Len(l) = Min(LIMIT, Cardinality(DOMAIN predictions))
                 /\ \A d \in DOMAIN predictions \ Range(l) :
                      \A e \in Range(l) :
                        predictions[d].timestamp <= predictions[e].timestamp
                 /\ ( /\ Has(s, "Prediction record added to Firestore.")
                      /\ Cardinality({d \in DOMAIN predictions \ {doc_ref[s]} :
                            predictions[d].timestamp >=
                              predictions[doc_ref[s]].timestamp}) < LIMIT )
                      => doc_ref[s] \in Range(l)
       ELSE NoQuery(s)]_vars

C8_Witness ==
  \E s \in Sessions :
    /\ pc[s] = "footer" /\ db[s]
    /\ Has(s, "call:stream")
    /\ ~Has(s, "Could not load prediction history")
    /\ Has(s, "Prediction record added to Firestore.")
    /\ Cardinality(DOMAIN predictions) > LIMIT
    /\ Len(shown[s]) = LIMIT
    /\ shown[s][1] = doc_ref[s]

\* C9 as stated: the object stored at the image_url of every record is the
\* image whose analysis produced the record.
C9_StoredImageIsAnalysedImage ==
  \A d \in DOMAIN predictions :
    /\ Key(d) \in DOMAIN bucket
    /\ bucket[Key(d)] = origin[d].image

\* C10: the body of load_model runs at most once; every run gets the cached
\* outcome, None included; an Analyze click of a run that got None shows
\* "Model not loaded" and makes no inference, whatever s3 is in that run.
C10_LoadOnceNoRecovery ==
  /\ loads <= 1
  /\ (cache.state = "hit") = (loads = 1)
  /\ \A s \in Sessions :
       /\ pc[s] \in {"analyze", "s3upload", "write", "history", "footer"} =>
            cache.state = "hit" /\ model[s] = cache.value
       /\ Analyzed(s) /\ cache.value = "None" =>
            Has(s, "Model not loaded.") /\ ~Has(s, "call:model")

C10_Witness ==
  \E s \in Sessions :
    /\ pc[s] = "footer" /\ clicked[s]
    /\ s3[s]
    /\ cache.value = "None"
    /\ cache.msg = "S3 not available to load model."
    /\ Has(s, "Model not loaded.")
    /\ ~Has(s, "call:model")

====
